---- MODULE Spec2Model ----
(***************************************************************************)
(* Model of the epl_backend canister (src/src/epl_backend/src/lib.rs).     *)
(*                                                                         *)
(* The canister keeps one Cell<u64> (ID_COUNTER, MemoryId 0) and four      *)
(* StableBTreeMap handles.  All four handles are created over              *)
(* MemoryId::new(1) (lib.rs:193-211), so they are four views of ONE        *)
(* virtual memory: one B-tree header, one allocator and one set of nodes.  *)
(* Each handle is a lazily initialised thread_local that caches the root   *)
(* address it read or wrote last; nodes are always re-read from memory.    *)
(* Records are stored as Candid bytes (Encode!/Decode!, lib.rs:23-83); a   *)
(* handle that finds a record of another kind under a key fails to decode  *)
(* it and the unwrap() panics, which traps the call.  A trap, like the     *)
(* end of a query call, discards every state change of the call.           *)
(*                                                                         *)
(* MATCH_STORAGE has no handler and is therefore never initialised.        *)
(* The model keeps the tree to its single root leaf: MaxId stays below     *)
(* the leaf capacity of the B-tree (11 entries), so no node ever splits.   *)
(***************************************************************************)
EXTENDS Integers, Sequences, FiniteSets, TLC

\* Bound: the largest id the model issues (valid adds are disabled beyond it).
MaxId == 3

\* Bound: the number of add_* requests submitted concurrently.
NumReqs == 2

VARIABLES
    counter,    \* value held by ID_COUNTER
    mem,        \* the virtual memory MemoryId(1) shared by the four maps
    cache,      \* per kind: the thread_local StableBTreeMap handle
    issued,     \* history: kind and id of every successful add_*, in order
    live,       \* history, per kind: id -> record last returned by add/update, until deleted
    deleted,    \* history, per kind: ids whose delete_* succeeded
    inflight    \* per submitted add_* request: its position in the handler and its locals

vars == <<counter, mem, cache, issued, live, deleted, inflight>>

Kinds == {"Team", "Coach", "Stadium"}
Ids == 1..MaxId

NULL == "NULL"
RootChunk == "chunk0"

NoRecord == [nil |-> TRUE]
EmptyNode == [k \in {} |-> NoRecord]

-----------------------------------------------------------------------------
\* Payloads the callers send: two valid ones per kind and one per failing field.

TeamPayloads ==
    { [name |-> "a", manager |-> "a", stadium |-> "a"],
      [name |-> "b", manager |-> "b", stadium |-> "b"],
      [name |-> "",  manager |-> "a", stadium |-> "a"],
      [name |-> "a", manager |-> "",  stadium |-> "a"],
      [name |-> "a", manager |-> "a", stadium |-> ""] }

CoachPayloads ==
    { [name |-> "a", team |-> "a"],
      [name |-> "b", team |-> "b"],
      [name |-> "",  team |-> "a"],
      [name |-> "a", team |-> ""] }

StadiumPayloads ==
    { [name |-> "a", location |-> "a", capacity |-> 1],
      [name |-> "b", location |-> "b", capacity |-> 2],
      [name |-> "",  location |-> "a", capacity |-> 1],
      [name |-> "a", location |-> "",  capacity |-> 1],
      [name |-> "a", location |-> "a", capacity |-> 0] }

\* Mutant of StadiumInvalid: the capacity check is forgotten.
StadiumInvalidNoCapacity(payload) ==
    payload.name = "" \/ payload.location = ""

\* The validation conditions of the handlers (true = the early return is taken).
TeamInvalid(payload) ==
    payload.name = "" \/ payload.manager = "" \/ payload.stadium = ""

\* Mutant of CoachInvalid: the team check is forgotten.
CoachInvalidNoTeam(payload) ==
    payload.name = ""

CoachInvalid(payload) ==
    payload.name = "" \/ payload.team = ""

StadiumInvalid(payload) ==
    payload.name = "" \/ payload.location = "" \/ payload.capacity = 0

Invalid(kind, payload) ==
    CASE kind = "Team" -> TeamInvalid(payload)
      [] kind = "Coach" -> CoachInvalid(payload)
      [] kind = "Stadium" -> StadiumInvalid(payload)

-----------------------------------------------------------------------------
\* Storable: Candid encoding keeps the record's field names; decoding as kind
\* succeeds only if every field of the kind's struct is present in the bytes.

Fields(kind) ==
    CASE kind = "Team" -> {"id", "name", "manager", "stadium"}
      [] kind = "Coach" -> {"id", "name", "team"}
      [] kind = "Stadium" -> {"id", "name", "location", "capacity"}

to_bytes(record) == record

CanDecode(kind, bytes) == Fields(kind) \subseteq DOMAIN bytes

from_bytes(kind, bytes) == [f \in Fields(kind) |-> bytes[f]]

-----------------------------------------------------------------------------
\* ID_COUNTER

InitialCounter == 0

\* The largest value of the counter's integer type. The model's integers are
\* one value wider than the ids the bounded machine issues, so that only the
\* unbounded machine SpecWrap drives the counter to it.
U64_MAX == MaxId + 1

\* current_value + 1 on u64 in a build without overflow checks.
WrappingAdd1(current_value) == (current_value + 1) % (U64_MAX + 1)

\* Mutant of CellSet: the incremented value is never written back.
CellSetDropped(current_value, set_ok) == current_value

\* Mutant of NextId: the closure returns the value read, not the one written.
NextIdPostIncrement(current_value) == current_value

\* counter.borrow_mut().set(current_value + 1): the value the cell holds after
\* the call; the handlers discard the Result of set.
CellSet(current_value, set_ok) ==
    IF set_ok THEN WrappingAdd1(current_value) ELSE current_value

\* The id the closure returns.
NextId(current_value) == WrappingAdd1(current_value)

-----------------------------------------------------------------------------
\* StableBTreeMap over the shared memory.  A program state s is the record
\* [counter, mem, cache]; the map operations read and write s.mem and s.cache.
\*   s.mem.magic      the memory holds a B-tree header (it is not empty)
\*   s.mem.root       root address in the header, as saved last by any handle
\*   s.mem.allocated  the allocated flag in the header of the root's chunk
\*   s.mem.node       the entries of the leaf at RootChunk (key -> value bytes);
\*                    they stay in memory when the chunk is deallocated
\*   s.cache[k]       handle k: initialised or not, and its own root address
\* A handle whose root is NULL allocates the chunk at the head of its free
\* list, which is RootChunk whenever its root is NULL; a handle reads and
\* writes the leaf through its own root address, never through the header.

\* First access to a thread_local handle: StableBTreeMap::init creates a new map
\* in an empty memory and loads the existing header otherwise.
StorageWith(kind, s) ==
    IF s.cache[kind].inited THEN s
    ELSE IF ~s.mem.magic
         THEN [s EXCEPT !.mem.magic = TRUE, !.mem.root = NULL,
                        !.cache[kind] = [inited |-> TRUE, root |-> NULL]]
         ELSE [s EXCEPT !.cache[kind] = [inited |-> TRUE, root |-> s.mem.root]]

\* storage.get(&id)
BTreeGet(kind, s, id) ==
    IF s.cache[kind].root = NULL \/ id \notin DOMAIN s.mem.node
    THEN [tag |-> "None", val |-> NoRecord]
    ELSE IF CanDecode(kind, s.mem.node[id])
         THEN [tag |-> "Some", val |-> from_bytes(kind, s.mem.node[id])]
         ELSE [tag |-> "Trap", val |-> NoRecord]

\* storage.insert(id, value)
BTreeInsert(kind, s, id, bytes) ==
    IF s.cache[kind].root = NULL
    THEN \* allocate a root node: the allocator asserts the chunk is free
         IF s.mem.allocated
         THEN [tag |-> "Trap", s |-> s]
         ELSE [tag |-> "None",
               s |-> [s EXCEPT !.mem.allocated = TRUE, !.mem.root = RootChunk,
                               !.mem.node = (id :> bytes),
                               !.cache[kind].root = RootChunk]]
    ELSE IF id \in DOMAIN s.mem.node
         THEN \* the key exists: swap, and decode the previous value
              IF CanDecode(kind, s.mem.node[id])
              THEN [tag |-> "Some",
                    s |-> [s EXCEPT !.mem.node = [s.mem.node EXCEPT ![id] = bytes]]]
              ELSE [tag |-> "Trap", s |-> s]
         ELSE [tag |-> "None",
               s |-> [s EXCEPT !.mem.node = (id :> bytes) @@ s.mem.node,
                               !.mem.root = s.cache[kind].root]]

\* storage.remove(&id)
BTreeRemove(kind, s, id) ==
    IF s.cache[kind].root = NULL \/ id \notin DOMAIN s.mem.node
    THEN [tag |-> "None", s |-> s]
    ELSE IF ~CanDecode(kind, s.mem.node[id])
         THEN [tag |-> "Trap", s |-> s]
         ELSE IF Cardinality(DOMAIN s.mem.node) = 1
              THEN \* the root leaf became empty: it is deallocated, not rewritten
                   [tag |-> "Some",
                    s |-> [s EXCEPT !.mem.allocated = FALSE, !.mem.root = NULL,
                                    !.cache[kind].root = NULL]]
              ELSE [tag |-> "Some",
                    s |-> [s EXCEPT !.mem.node =
                                        [k \in DOMAIN s.mem.node \ {id} |-> s.mem.node[k]],
                                    !.mem.root = s.cache[kind].root]]

-----------------------------------------------------------------------------
\* The handlers, as functions of the program state s and the call's arguments.
\* Each returns the state the call leaves, its result and the record it returns.
\* A call that traps leaves s as it was; so does a query call.

Returns(s, res, rec) == [s |-> s, res |-> res, rec |-> rec]

\* Mutant of MakeRecord: the id field is left at its default.
MakeRecordDefaultId(kind, id, payload) ==
    [f \in Fields(kind) |-> IF f = "id" THEN 0 ELSE payload[f]]

\* The record a handler builds: the payload's fields and the given id.
MakeRecord(kind, id, payload) ==
    [f \in Fields(kind) |-> IF f = "id" THEN id ELSE payload[f]]

\* add_team / add_coach / add_stadium.  set_ok: whether Cell::set returned Ok.
Add(kind, s, payload, set_ok) ==
    IF Invalid(kind, payload)
    THEN Returns(s, "EmptyFields", NoRecord)
    ELSE LET current_value == s.counter
             id == NextId(current_value)
             s1 == [s EXCEPT !.counter = CellSet(current_value, set_ok)]
             record == MakeRecord(kind, id, payload)
             ins == BTreeInsert(kind, StorageWith(kind, s1), id, to_bytes(record))
         IN IF ins.tag = "Trap"
            THEN Returns(s, "Trap", NoRecord)
            ELSE Returns(ins.s, "Ok", record)

\* get_team / get_coach / get_stadium: query calls, nothing they write persists.
Get(kind, s, id) ==
    LET got == BTreeGet(kind, StorageWith(kind, s), id)
    IN CASE got.tag = "Some" -> Returns(s, "Ok", got.val)
         [] got.tag = "None" -> Returns(s, "NotFound", NoRecord)
         [] got.tag = "Trap" -> Returns(s, "Trap", NoRecord)

\* Mutant of Delete: the handler looks the id up but does not remove it.
DeleteChecksOnly(kind, s, id) ==
    LET s0 == StorageWith(kind, s)
        got == BTreeGet(kind, s0, id)
    IN CASE got.tag = "Some" -> Returns(s0, "Ok", NoRecord)
         [] got.tag = "None" -> Returns(s0, "NotFound", NoRecord)
         [] got.tag = "Trap" -> Returns(s, "Trap", NoRecord)

\* Mutant of Delete: removing a record drops the whole leaf it was in.
DeleteClearsLeaf(kind, s, id) ==
    LET rem == BTreeRemove(kind, StorageWith(kind, s), id)
    IN CASE rem.tag = "Some" ->
               Returns([rem.s EXCEPT !.mem.node = EmptyNode], "Ok", NoRecord)
         [] rem.tag = "None" -> Returns(rem.s, "NotFound", NoRecord)
         [] rem.tag = "Trap" -> Returns(s, "Trap", NoRecord)

\* Mutant of Delete: a successful delete gives the last id back to the counter.
DeleteReleasesId(kind, s, id) ==
    LET rem == BTreeRemove(kind, StorageWith(kind, s), id)
    IN CASE rem.tag = "Some" ->
               Returns([rem.s EXCEPT !.counter = IF @ > 0 THEN @ - 1 ELSE 0],
                       "Ok", NoRecord)
         [] rem.tag = "None" -> Returns(rem.s, "NotFound", NoRecord)
         [] rem.tag = "Trap" -> Returns(s, "Trap", NoRecord)

\* delete_team / delete_coach / delete_stadium
Delete(kind, s, id) ==
    LET rem == BTreeRemove(kind, StorageWith(kind, s), id)
    IN CASE rem.tag = "Some" -> Returns(rem.s, "Ok", NoRecord)
         [] rem.tag = "None" -> Returns(rem.s, "NotFound", NoRecord)
         [] rem.tag = "Trap" -> Returns(s, "Trap", NoRecord)

\* Mutant of Update: an id is drawn from the counter before the lookup.
UpdateDrawsId(kind, s, id, payload) ==
    IF Invalid(kind, payload)
    THEN Returns(s, "EmptyFields", NoRecord)
    ELSE LET s0 == StorageWith(kind, [s EXCEPT !.counter = @ + 1])
             got == BTreeGet(kind, s0, id)
         IN CASE got.tag = "Trap" -> Returns(s, "Trap", NoRecord)
              [] got.tag = "None" -> Returns(s0, "NotFound", NoRecord)
              [] got.tag = "Some" ->
                   LET updated == MakeRecord(kind, got.val.id, payload)
                       ins == BTreeInsert(kind, s0, id, to_bytes(updated))
                   IN IF ins.tag = "Trap"
                      THEN Returns(s, "Trap", NoRecord)
                      ELSE Returns(ins.s, "Ok", updated)

\* Mutant of Update: a missing entry is created instead of reported.
UpdateUpserts(kind, s, id, payload) ==
    IF Invalid(kind, payload)
    THEN Returns(s, "EmptyFields", NoRecord)
    ELSE LET s0 == StorageWith(kind, s)
             updated == MakeRecord(kind, id, payload)
             ins == BTreeInsert(kind, s0, id, to_bytes(updated))
         IN IF ins.tag = "Trap"
            THEN Returns(s, "Trap", NoRecord)
            ELSE Returns(ins.s, "Ok", updated)

\* update_team / update_coach / update_stadium
Update(kind, s, id, payload) ==
    IF Invalid(kind, payload)
    THEN Returns(s, "EmptyFields", NoRecord)
    ELSE LET s0 == StorageWith(kind, s)
             got == BTreeGet(kind, s0, id)
         IN CASE got.tag = "Trap" -> Returns(s, "Trap", NoRecord)
              [] got.tag = "None" -> Returns(s0, "NotFound", NoRecord)
              [] got.tag = "Some" ->
                   LET updated == MakeRecord(kind, got.val.id, payload)
                       ins == BTreeInsert(kind, s0, id, to_bytes(updated))
                   IN IF ins.tag = "Trap"
                      THEN Returns(s, "Trap", NoRecord)
                      ELSE Returns(ins.s, "Ok", updated)

-----------------------------------------------------------------------------
\* Requests submitted to the canister at the same time. Every handler is a
\* synchronous fn (no await), so the message it serves is executed from its
\* first statement to its return before another message is started.

Reqs == 1..NumReqs

Queued ==
    [pc |-> "queued", kind |-> "none", payload |-> NoRecord,
     current_value |-> 0, id |-> 0, res |-> "none", snap |-> NoRecord]

\* Positions inside add_*: before the counter read, between the read and the
\* write, and between the write and the insert.
Mid == {"read", "write", "insert"}

\* Mutant of Scheduled: a message may be started or resumed while another
\* one is between two of its statements.
ScheduledAnyTime(r) == TRUE

Scheduled(r) == \A q \in Reqs \ {r} : inflight[q].pc \notin Mid

-----------------------------------------------------------------------------
\* The state machine: one action per exported handler.

S == [counter |-> counter, mem |-> mem, cache |-> cache]

Init ==
    /\ counter = InitialCounter
    /\ mem = [magic |-> FALSE, root |-> NULL, allocated |-> FALSE, node |-> EmptyNode]
    /\ cache = [k \in Kinds |-> [inited |-> FALSE, root |-> NULL]]
    /\ issued = <<>>
    /\ live = [k \in Kinds |-> EmptyNode]
    /\ deleted = [k \in Kinds |-> {}]
    /\ inflight = [r \in Reqs |-> Queued]

Without(f, id) == [k \in DOMAIN f \ {id} |-> f[k]]

Commit(out) ==
    /\ counter' = out.s.counter
    /\ mem' = out.s.mem
    /\ cache' = out.s.cache

CallAdd(kind, payload, set_ok) ==
    LET out == Add(kind, S, payload, set_ok)
    IN /\ Invalid(kind, payload) \/ (counter < MaxId /\ Len(issued) < MaxId)
       /\ Commit(out)
       /\ IF out.res = "Ok"
          THEN /\ issued' = Append(issued, [kind |-> kind, id |-> out.rec.id])
               /\ live' = [live EXCEPT ![kind] =
                              (out.rec.id :> out.rec)
                                  @@ Without(live[kind], out.rec.id)]
          ELSE UNCHANGED <<issued, live>>
       /\ UNCHANGED <<deleted, inflight>>

CallGet(kind, id) ==
    /\ Commit(Get(kind, S, id))
    /\ UNCHANGED <<issued, live, deleted, inflight>>

CallDelete(kind, id) ==
    LET out == Delete(kind, S, id)
    IN /\ Commit(out)
       /\ IF out.res = "Ok"
          THEN /\ live' = [live EXCEPT ![kind] = Without(live[kind], id)]
               /\ deleted' = [deleted EXCEPT ![kind] = @ \cup {id}]
          ELSE UNCHANGED <<live, deleted>>
       /\ UNCHANGED <<issued, inflight>>

CallUpdate(kind, id, payload) ==
    LET out == Update(kind, S, id, payload)
    IN /\ Commit(out)
       /\ IF out.res = "Ok"
          THEN live' = [live EXCEPT ![kind] =
                           (id :> out.rec)
                               @@ Without(live[kind], id)]
          ELSE UNCHANGED live
       /\ UNCHANGED <<issued, deleted, inflight>>

add_team(set_ok) == \E payload \in TeamPayloads : CallAdd("Team", payload, set_ok)
get_team == \E id \in Ids : CallGet("Team", id)
delete_team == \E id \in Ids : CallDelete("Team", id)
update_team == \E id \in Ids, payload \in TeamPayloads : CallUpdate("Team", id, payload)

add_coach(set_ok) == \E payload \in CoachPayloads : CallAdd("Coach", payload, set_ok)
get_coach == \E id \in Ids : CallGet("Coach", id)
delete_coach == \E id \in Ids : CallDelete("Coach", id)
update_coach == \E id \in Ids, payload \in CoachPayloads : CallUpdate("Coach", id, payload)

add_stadium(set_ok) == \E payload \in StadiumPayloads : CallAdd("Stadium", payload, set_ok)
get_stadium == \E id \in Ids : CallGet("Stadium", id)
delete_stadium == \E id \in Ids : CallDelete("Stadium", id)
update_stadium ==
    \E id \in Ids, payload \in StadiumPayloads : CallUpdate("Stadium", id, payload)

\* Cell::set always succeeds (the cell's memory is allocated by Cell::init).
Next ==
    \/ add_team(TRUE)
    \/ get_team
    \/ delete_team
    \/ update_team
    \/ add_coach(TRUE)
    \/ get_coach
    \/ delete_coach
    \/ update_coach
    \/ add_stadium(TRUE)
    \/ get_stadium
    \/ delete_stadium
    \/ update_stadium

Spec == Init /\ [][Next]_vars

\* The same machine when the counter's backing storage may refuse a write.
NextFail ==
    \/ \E set_ok \in BOOLEAN : add_team(set_ok)
    \/ get_team
    \/ delete_team
    \/ update_team
    \/ \E set_ok \in BOOLEAN : add_coach(set_ok)
    \/ get_coach
    \/ delete_coach
    \/ update_coach
    \/ \E set_ok \in BOOLEAN : add_stadium(set_ok)
    \/ get_stadium
    \/ delete_stadium
    \/ update_stadium

SpecFail == Init /\ [][NextFail]_vars

\* The same machine driven by callers that never call update_*.
NextNoUpdate ==
    \/ add_team(TRUE)
    \/ get_team
    \/ delete_team
    \/ add_coach(TRUE)
    \/ get_coach
    \/ delete_coach
    \/ add_stadium(TRUE)
    \/ get_stadium
    \/ delete_stadium

SpecNoUpdate == Init /\ [][NextNoUpdate]_vars

-----------------------------------------------------------------------------
\* Vocabulary of the properties.

Payloads(kind) ==
    CASE kind = "Team" -> TeamPayloads
      [] kind = "Coach" -> CoachPayloads
      [] kind = "Stadium" -> StadiumPayloads

\* The required string fields of each kind, as the specification lists them.
RequiredStrings(kind) ==
    CASE kind = "Team" -> {"name", "manager", "stadium"}
      [] kind = "Coach" -> {"name", "team"}
      [] kind = "Stadium" -> {"name", "location"}

\* A payload the specification calls invalid: a required string is empty, or a
\* Stadium's capacity is zero.
MissingRequired(kind, payload) ==
    \/ \E f \in RequiredStrings(kind) : payload[f] = ""
    \/ kind = "Stadium" /\ payload.capacity = 0

ValidPayloads(kind) == {p \in Payloads(kind) : ~MissingRequired(kind, p)}

IssuedIds == {issued[i].id : i \in DOMAIN issued}

-----------------------------------------------------------------------------
\* C1 (Uniqueness): the ids returned by the successful adds, of whatever kinds
\* and with gets, updates and deletes in between, are pairwise distinct, and
\* the id the next successful add would return has never been issued before
\* (so no id is shared between kinds and no deleted id is issued again).
Uniqueness ==
    /\ \A i, j \in DOMAIN issued : i # j => issued[i].id # issued[j].id
    /\ \A kind \in Kinds : \A p \in ValidPayloads(kind) :
          LET out == Add(kind, S, p, TRUE)
          IN out.res = "Ok" =>
                /\ out.rec.id \notin IssuedIds
                /\ \A k \in Kinds : out.rec.id \notin deleted[k]

\* Three adds of at least two kinds have succeeded, the first id was deleted
\* before a later add.
UniquenessWitness ==
    /\ Len(issued) = 3
    /\ issued[1].kind # issued[2].kind
    /\ issued[1].id \in deleted[issued[1].kind]
    /\ issued[3].id \in DOMAIN live[issued[3].kind]

\* C2 (Store independence): get_K(id) returns Ok exactly when add_K returned id
\* and no delete_K(id) succeeded since, and NotFound otherwise, whatever was
\* done to the other kinds.
StoreIndependence ==
    \A kind \in Kinds : \A id \in Ids :
        Get(kind, S, id).res = IF id \in DOMAIN live[kind] THEN "Ok" ELSE "NotFound"

\* C3 (Atomic create under storage failure), under SpecFail: no record is ever
\* stored under an id the counter has not been advanced to, and no two
\* successful adds return the same id.
AtomicCreate ==
    /\ \A kind \in Kinds : \A id \in DOMAIN live[kind] : id <= counter
    /\ \A i, j \in DOMAIN issued : i # j => issued[i].id # issued[j].id

\* C4 (Validation precedes mutation): an add or update whose payload misses a
\* required field (or has capacity 0) returns EmptyFields and leaves the
\* counter, the memory and the handles exactly as they were.
ValidationPrecedesMutation ==
    \A kind \in Kinds : \A p \in Payloads(kind) :
        MissingRequired(kind, p) =>
            /\ Add(kind, S, p, TRUE) = Returns(S, "EmptyFields", NoRecord)
            /\ \A id \in Ids :
                  Update(kind, S, id, p) = Returns(S, "EmptyFields", NoRecord)

\* A Stadium is stored and an update of it with capacity 0 is rejected while
\* get still returns the stored record.
ValidationWitness ==
    \E id \in DOMAIN live["Stadium"] :
        LET out == Update("Stadium", S, id,
                          [name |-> "a", location |-> "a", capacity |-> 0])
        IN /\ counter > 1
           /\ out.res = "EmptyFields"
           /\ Get("Stadium", out.s, id) = Returns(out.s, "Ok", live["Stadium"][id])

\* C5 (Monotonicity): of two successful adds, of whatever kinds, the later one
\* returns the strictly greater id.
Monotonicity ==
    \A i, j \in DOMAIN issued : i < j => issued[i].id < issued[j].id

\* Three adds have succeeded, consecutive ones of different kinds.
MonotonicityWitness ==
    /\ Len(issued) = 3
    /\ issued[1].kind # issued[2].kind
    /\ issued[2].kind # issued[3].kind

DeleteIsTerminal ==
    [][\A kind \in Kinds : \A id \in Ids :
          (id \in deleted'[kind] /\ id \notin deleted[kind]) =>
              /\ Get(kind, S', id).res = "NotFound"
              /\ Delete(kind, S', id).res = "NotFound"
              /\ \A p \in ValidPayloads(kind) :
                    Update(kind, S', id, p).res = "NotFound"]_vars

\* A delete has succeeded while another record stays stored, and get of the
\* deleted id returns NotFound.
DeleteWitness ==
    \E kind \in Kinds : \E id \in deleted[kind] :
        /\ Get(kind, S, id).res = "NotFound"
        /\ \E other \in DOMAIN live[kind] : Get(kind, S, other).res = "Ok"

GapFree ==
    /\ counter = Len(issued)
    /\ \A k \in DOMAIN issued : issued[k].id = k
    /\ \A kind \in Kinds : \A id \in DOMAIN live[kind] : live[kind][id].id = id

\* Three adds have succeeded with a successful delete in between.
GapFreeWitness ==
    /\ Len(issued) = 3
    /\ \E kind \in Kinds : deleted[kind] # {} /\ live[kind] # EmptyNode

\* C10 (Error precedence in update): an invalid payload yields EmptyFields
\* whether or not the id is stored; a valid payload with an id that is not
\* stored in K yields NotFound and creates no record for the id.
UpdateErrorPrecedence ==
    \A kind \in Kinds : \A id \in Ids : \A p \in Payloads(kind) :
        LET out == Update(kind, S, id, p)
        IN /\ MissingRequired(kind, p) => out.res = "EmptyFields"
           /\ (~MissingRequired(kind, p) /\ id \notin DOMAIN live[kind]) =>
                 /\ out.res = "NotFound"
                 /\ Get(kind, out.s, id).res = "NotFound"

\* What a caller can observe of a program state s: the result and record of
\* get_K(id) for every kind and id.
Observed(s) ==
    [kind \in Kinds |-> [id \in Ids |->
        LET out == Get(kind, s, id) IN [res |-> out.res, rec |-> out.rec]]]

\* C11 (No cascading effects): a successful delete_K(id) or update_K(id, p)
\* leaves the counter unchanged and leaves every other stored record, of K
\* and of the other kinds, readable with the same fields as before.
NoCascade ==
    \A kind \in Kinds : \A id \in Ids :
        LET del == Delete(kind, S, id)
            others(s) == [k \in Kinds |-> [i \in DOMAIN live[k] \ (IF k = kind THEN {id} ELSE {}) |->
                             Observed(s)[k][i]]]
        IN /\ del.res = "Ok" =>
                 /\ del.s.counter = counter
                 /\ others(del.s) = others(S)
           /\ \A p \in ValidPayloads(kind) :
                 LET upd == Update(kind, S, id, p)
                 IN upd.res = "Ok" =>
                       /\ upd.s.counter = counter
                       /\ others(upd.s) = others(S)

\* A Stadium named "a" can be deleted while a Team whose stadium is "a" and a
\* second Stadium are stored and readable.
NoCascadeWitness ==
    \E sid \in DOMAIN live["Stadium"] : \E tid \in DOMAIN live["Team"] :
        /\ live["Stadium"][sid].name = "a"
        /\ live["Team"][tid].stadium = "a"
        /\ Delete("Stadium", S, sid).res = "Ok"
        /\ Get("Team", S, tid).res = "Ok"
        /\ deleted["Stadium"] # {}

\* C12 (Stored records are always valid): in every reachable state, every
\* record held in the stable memory and every record a get_K returns has all
\* the required strings of its kind non-empty, and a Stadium has capacity > 0.
StoredRecordsValid ==
    /\ \A k \in DOMAIN mem.node : \A kind \in Kinds :
          DOMAIN mem.node[k] = Fields(kind) =>
              ~MissingRequired(kind, mem.node[k])
    /\ \A kind \in Kinds : \A id \in Ids :
          LET out == Get(kind, S, id)
          IN out.res = "Ok" => ~MissingRequired(kind, out.rec)

\* A Team, a Coach and a Stadium are stored together, and the Stadium reads
\* back with capacity 2.
StoredRecordsWitness ==
    /\ \A kind \in Kinds : \E k \in DOMAIN mem.node :
          DOMAIN mem.node[k] = Fields(kind)
    /\ \E id \in Ids :
          LET out == Get("Stadium", S, id)
          IN out.res = "Ok" /\ out.rec.capacity = 2

-----------------------------------------------------------------------------
\* add_* statement by statement, for the requests submitted concurrently.

InitialState ==
    [counter |-> InitialCounter,
     mem |-> [magic |-> FALSE, root |-> NULL, allocated |-> FALSE, node |-> EmptyNode],
     cache |-> [k \in Kinds |-> [inited |-> FALSE, root |-> NULL]]]

\* The message of request r is started: the validation, which returns
\* EmptyFields at once or goes on to the counter.
add_validate(r) ==
    /\ inflight[r].pc = "queued"
    /\ Scheduled(r)
    /\ \E kind \in Kinds : \E payload \in Payloads(kind) :
          inflight' = [inflight EXCEPT ![r] =
              IF Invalid(kind, payload)
              THEN [@ EXCEPT !.pc = "done", !.kind = kind, !.payload = payload,
                             !.res = "EmptyFields"]
              ELSE [@ EXCEPT !.pc = "read", !.kind = kind, !.payload = payload,
                             !.snap = S]]
    /\ UNCHANGED <<counter, mem, cache, issued, live, deleted>>

\* let current_value = *counter.borrow().get();
add_read_counter(r) ==
    /\ inflight[r].pc = "read"
    /\ Scheduled(r)
    /\ inflight' = [inflight EXCEPT ![r].pc = "write", ![r].current_value = counter]
    /\ UNCHANGED <<counter, mem, cache, issued, live, deleted>>

\* let _ = counter.borrow_mut().set(current_value + 1); current_value + 1
add_write_counter(r) ==
    /\ inflight[r].pc = "write"
    /\ Scheduled(r)
    /\ counter' = CellSet(inflight[r].current_value, TRUE)
    /\ inflight' = [inflight EXCEPT ![r].pc = "insert",
                                    ![r].id = NextId(inflight[r].current_value)]
    /\ UNCHANGED <<mem, cache, issued, live, deleted>>

\* storage.insert(id, record.clone()); Ok(record). A trap restores the state
\* the message started from.
add_insert(r) ==
    /\ inflight[r].pc = "insert"
    /\ Scheduled(r)
    /\ LET q == inflight[r]
           record == MakeRecord(q.kind, q.id, q.payload)
           ins == BTreeInsert(q.kind, StorageWith(q.kind, S), q.id, to_bytes(record))
       IN IF ins.tag = "Trap"
          THEN /\ Commit(Returns(q.snap, "Trap", NoRecord))
               /\ inflight' = [inflight EXCEPT ![r].pc = "done", ![r].res = "Trap",
                                               ![r].snap = NoRecord]
               /\ UNCHANGED <<issued, live>>
          ELSE /\ Commit(Returns(ins.s, "Ok", record))
               /\ inflight' = [inflight EXCEPT ![r].pc = "done", ![r].res = "Ok",
                                               ![r].snap = NoRecord]
               /\ issued' = Append(issued, [kind |-> q.kind, id |-> q.id])
               /\ live' = [live EXCEPT ![q.kind] =
                              (q.id :> record) @@ Without(live[q.kind], q.id)]
    /\ UNCHANGED deleted

NextSteps ==
    \/ \E r \in Reqs : add_validate(r)
    \/ \E r \in Reqs : add_read_counter(r)
    \/ \E r \in Reqs : add_write_counter(r)
    \/ \E r \in Reqs : add_insert(r)

SpecSteps == Init /\ [][NextSteps]_vars

\* Request r has read the counter and has not been rolled back.
HasRead(r) ==
    \/ inflight[r].pc \in {"write", "insert"}
    \/ inflight[r].pc = "done" /\ inflight[r].res = "Ok"

\* The orders in which the requests can be served one after the other.
Orders == {o \in [Reqs -> Reqs] : \A a, b \in Reqs : o[a] = o[b] => a = b}

\* Serving the requests o[i], o[i+1], ... as whole add_* calls from state s
\* gives each request the result it got and ends in the current state.
RECURSIVE SequentialRun(_, _, _)
SequentialRun(s, o, i) ==
    IF i > NumReqs
    THEN s = S
    ELSE LET q == inflight[o[i]]
             out == Add(q.kind, s, q.payload, TRUE)
         IN /\ out.res = q.res
            /\ q.res = "Ok" => out.rec.id = q.id
            /\ SequentialRun(out.s, o, i + 1)

CounterInvariant ==
    /\ \A kind \in Kinds :
          /\ \A payload \in Payloads(kind) :
                LET out == Add(kind, S, payload, TRUE)
                IN out.s.counter = IF out.res = "Ok" THEN counter + 1 ELSE counter
          /\ \A id \in Ids :
                /\ Get(kind, S, id).s.counter = counter
                /\ Delete(kind, S, id).s.counter = counter
                /\ \A payload \in Payloads(kind) :
                      Update(kind, S, id, payload).s.counter = counter
    /\ counter \in IssuedIds \cup {0}
    /\ \A id \in IssuedIds : id <= counter
    /\ \A k \in DOMAIN mem.node : k <= counter
    /\ \A kind \in Kinds : \A k \in DOMAIN live[kind] : k <= counter

\* Two ids have been issued, the record holding the larger one has been
\* deleted, and the counter still stands at that id above the remaining key.
CounterInvariantWitness ==
    /\ Len(issued) = 2
    /\ counter = 2
    /\ 2 \in deleted[issued[2].kind]
    /\ 1 \in DOMAIN mem.node

\* C15 (Key/id agreement): in every reachable state a record held under key
\* k has id field k, whether read from the memory or through get_K; add_K
\* stores the record it returns under that record's id, and update_K(id)
\* stores a record with id field id back under key id.
KeyIdAgreement ==
    /\ \A k \in DOMAIN mem.node : mem.node[k].id = k
    /\ \A kind \in Kinds :
          /\ \A id \in Ids :
                /\ LET out == Get(kind, S, id)
                   IN out.res = "Ok" => out.rec.id = id
                /\ \A payload \in Payloads(kind) :
                      LET out == Update(kind, S, id, payload)
                      IN out.res = "Ok" =>
                            /\ out.rec.id = id
                            /\ id \in DOMAIN out.s.mem.node
                            /\ out.s.mem.node[id] = to_bytes(out.rec)
          /\ \A payload \in Payloads(kind) :
                LET out == Add(kind, S, payload, TRUE)
                IN out.res = "Ok" =>
                      /\ out.rec.id \in DOMAIN out.s.mem.node
                      /\ out.s.mem.node[out.rec.id] = to_bytes(out.rec)

\* A record stored under an id above 1 reads back through get_K and is
\* accepted by update_K with another payload.
KeyIdWitness ==
    \E kind \in Kinds : \E id \in Ids \ {1} :
        /\ id \in DOMAIN live[kind]
        /\ live[kind][id].name = "b"
        /\ Get(kind, S, id).res = "Ok"
        /\ Update(kind, S, id, CHOOSE p \in ValidPayloads(kind) : p.name = "a").res = "Ok"

\* C16 (Deletion is permanent): in every reachable state, whatever adds,
\* updates and deletes of any kind have followed, get_K(id) returns NotFound
\* for every id whose delete_K has succeeded, and no add_* can return that id.
DeletionPermanent ==
    \A kind \in Kinds : \A id \in deleted[kind] :
        /\ Get(kind, S, id).res = "NotFound"
        /\ \A k \in Kinds : \A payload \in ValidPayloads(k) :
              LET out == Add(k, S, payload, TRUE)
              IN out.res = "Ok" => out.rec.id # id

\* Id 1 was deleted, and two more records have been added since, one of
\* them of the deleted record's kind and still stored.
DeletionPermanentWitness ==
    \E kind \in Kinds :
        /\ 1 \in deleted[kind]
        /\ Len(issued) = 3
        /\ \E id \in DOMAIN live[kind] : Get(kind, S, id).res = "Ok"

\* The records held in the stable memory of state s: the root pointer, the
\* allocation flag and the leaf's entries.
Contents(s) == [root |-> s.mem.root, allocated |-> s.mem.allocated, node |-> s.mem.node]

-----------------------------------------------------------------------------
\* The machine driven by adds up to the integer bound of the counter. Whether
\* current_value + 1 at the bound panics (overflow checks on: the call traps)
\* or wraps (overflow checks off) is decided by the build.

U64Ids == 0..U64_MAX

AddU64(kind, s, payload, overflow_checks) ==
    IF ~Invalid(kind, payload) /\ s.counter = U64_MAX /\ overflow_checks
    THEN Returns(s, "Trap", NoRecord)
    ELSE Add(kind, s, payload, TRUE)

add_u64 ==
    \E kind \in Kinds : \E payload \in Payloads(kind) : \E overflow_checks \in BOOLEAN :
        LET out == AddU64(kind, S, payload, overflow_checks)
        IN /\ Len(issued) < U64_MAX + 2
           /\ Commit(out)
           /\ IF out.res = "Ok"
              THEN /\ issued' = Append(issued, [kind |-> kind, id |-> out.rec.id])
                   /\ live' = [live EXCEPT ![kind] =
                                  (out.rec.id :> out.rec)
                                      @@ Without(live[kind], out.rec.id)]
              ELSE UNCHANGED <<issued, live>>
           /\ UNCHANGED <<deleted, inflight>>

get_u64 == \E kind \in Kinds : \E id \in U64Ids : CallGet(kind, id)

NextWrap ==
    \/ add_u64
    \/ get_u64

SpecWrap == Init /\ [][NextWrap]_vars

\* C18 (No wrap-around at the integer bound): when the counter holds the
\* largest value of its type, a valid add_* does not set the counter to 0,
\* does not return an id at or below an id issued before, and leaves every
\* record already stored in place.
NoWrapAround ==
    counter = U64_MAX =>
        \A kind \in Kinds : \A payload \in ValidPayloads(kind) :
            \A overflow_checks \in BOOLEAN :
                LET out == AddU64(kind, S, payload, overflow_checks)
                IN /\ out.s.counter # 0
                   /\ out.res = "Ok" => \A id \in IssuedIds : out.rec.id > id
                   /\ \A k \in DOMAIN mem.node :
                         /\ k \in DOMAIN out.s.mem.node
                         /\ out.s.mem.node[k] = mem.node[k]

====
